---- MODULE Spec2Model ----
(***************************************************************************)
(* The scrape -> clean -> dedupe pipeline of scraper.py and its driver     *)
(* scrape_multiple of app.py.  Python strings are tuples of one-character  *)
(* strings, so that splitting, stripping, lower-casing and digit           *)
(* extraction are computed character by character as the code does.        *)
(***************************************************************************)
EXTENDS Integers, Sequences, FiniteSets, TLC

VARIABLES
    \* build_page_url(base_url, page)
    base_url, page, url_out, url_pc,
    \* clean_price(price_text)
    price_text, price_out, price_pc,
    \* clean_records(records)
    raw_records, cleaned, clean_pc,
    \* dedupe_records(records): the loop's row index, seen, unique
    records, dd_pass, dd_i, seen, unique, first_pass, dd_pc,
    \* parse_listings(html, item_type): cards, the loop's card index, records
    html, item_type, cards, card_i, parsed, parse_pc,
    \* main -> scrape_multiple -> scrape_category -> fetch_html
    site_cards, categories, pages_arg, cat_i, pages, cur_page, fetched_html,
    results, sm_records, trace, exc, raw_df, pc

urlVars    == <<base_url, page, url_out, url_pc>>
priceVars  == <<price_text, price_out, price_pc>>
cleanVars  == <<raw_records, cleaned, clean_pc>>
dedupeVars == <<records, dd_pass, dd_i, seen, unique, first_pass, dd_pc>>
parseVars  == <<html, item_type, cards, card_i, parsed, parse_pc>>
scrapeVars == <<site_cards, categories, pages_arg, cat_i, pages, cur_page,
                fetched_html, results, sm_records, trace, exc, raw_df, pc>>
vars == <<urlVars, priceVars, cleanVars, dedupeVars, parseVars, scrapeVars>>

-----------------------------------------------------------------------------
(* Bounds of the model.                                                    *)

\* most query parameters of a base URL
MaxParams == 3
\* largest page number handed to build_page_url
MaxPage == 3
\* most fragments a price text is put together from
MaxFrags == 3
\* most digits in a price text (TLC's integers are 32 bits wide)
MaxDigits == 8
\* longest address text of a raw row
MaxLen == 4
\* most rows handed to dedupe_records
MaxRecords == 3
\* most top-level elements of an HTML document
MaxElems == 3
\* most categories selected for one batch
MaxCats == 2
\* most cards on one page of the site
MaxCards == 2

-----------------------------------------------------------------------------
(* Python values: None, str and int.                                       *)

None   == [kind |-> "none", s |-> <<>>, n |-> 0]
PyStr(s) == [kind |-> "str", s |-> s, n |-> 0]
PyInt(n) == [kind |-> "int", s |-> <<>>, n |-> n]

Digits == <<"0", "1", "2", "3", "4", "5", "6", "7", "8", "9">>
UpperLetters == <<"A", "B", "C", "D", "E", "F", "G", "H", "I", "J", "K", "L", "M",
                  "N", "O", "P", "Q", "R", "S", "T", "U", "V", "W", "X", "Y", "Z">>
LowerLetters == <<"a", "b", "c", "d", "e", "f", "g", "h", "i", "j", "k", "l", "m",
                  "n", "o", "p", "q", "r", "s", "t", "u", "v", "w", "x", "y", "z">>

\* the characters \s matches and str.strip() removes
IsSpace(c) == c \in {" ", "\t", "\n"}
\* the characters \d matches
IsDigit(c) == \E i \in 1..10 : Digits[i] = c
DigitVal(c) == (CHOOSE i \in 1..10 : Digits[i] = c) - 1

Max(a, b) == IF a >= b THEN a ELSE b

\* str.lower()
lower(s) ==
    [i \in 1..Len(s) |->
        IF \E k \in 1..26 : UpperLetters[k] = s[i]
        THEN LowerLetters[CHOOSE k \in 1..26 : UpperLetters[k] = s[i]]
        ELSE s[i]]

\* needle in s (Python's substring test)
Contains(s, needle) ==
    \E i \in 0..(Len(s) - Len(needle)) :
        \A j \in 1..Len(needle) : s[i + j] = needle[j]

\* s.find(c) + 1 for a set of characters: the first position holding one, or 0
Find(s, cs) ==
    IF \E i \in 1..Len(s) : s[i] \in cs
    THEN CHOOSE i \in 1..Len(s) : s[i] \in cs /\ \A j \in 1..(i - 1) : s[j] \notin cs
    ELSE 0

RECURSIVE Split(_, _)
\* s.split(sep)
Split(s, sep) ==
    LET i == Find(s, {sep})
    IN  IF i = 0 THEN <<s>>
        ELSE <<SubSeq(s, 1, i - 1)>> \o Split(SubSeq(s, i + 1, Len(s)), sep)

RECURSIVE Join(_, _)
\* sep.join(parts)
Join(parts, sep) ==
    IF parts = <<>> THEN <<>>
    ELSE IF Len(parts) = 1 THEN parts[1]
    ELSE parts[1] \o sep \o Join(Tail(parts), sep)

RECURSIVE IntToStr(_)
\* str(n) of a non-negative int
IntToStr(n) ==
    IF n < 10 THEN <<Digits[n + 1]>>
    ELSE IntToStr(n \div 10) \o <<Digits[(n % 10) + 1]>>

\* str(n) of an int
str_int(n) == IF n < 0 THEN <<"-">> \o IntToStr(0 - n) ELSE IntToStr(n)

RECURSIVE ParseInt(_)
\* int(digits) of a non-empty string of digits
ParseInt(digits) ==
    IF Len(digits) = 1 THEN DigitVal(digits[1])
    ELSE 10 * ParseInt(SubSeq(digits, 1, Len(digits) - 1)) + DigitVal(digits[Len(digits)])

-----------------------------------------------------------------------------
(* urllib.parse, as build_page_url uses it.  The URLs of the model hold    *)
(* letters, digits and "-", ".", "/", ":", "?", "&", "=", "+", "#".        *)

\* urlparse(url): scheme, netloc, path, query, fragment (no ";params" here)
urlparse(url) ==
    LET colon  == Find(url, {":"})
        scheme == IF colon > 1 THEN lower(SubSeq(url, 1, colon - 1)) ELSE <<>>
        rest1  == IF colon > 1 THEN SubSeq(url, colon + 1, Len(url)) ELSE url
        hasNet == Len(rest1) >= 2 /\ SubSeq(rest1, 1, 2) = <<"/", "/">>
        after  == IF hasNet THEN SubSeq(rest1, 3, Len(rest1)) ELSE rest1
        delim  == Find(after, {"/", "?", "#"})
        netloc == IF ~hasNet THEN <<>>
                  ELSE IF delim = 0 THEN after ELSE SubSeq(after, 1, delim - 1)
        rest2  == IF ~hasNet THEN rest1
                  ELSE IF delim = 0 THEN <<>> ELSE SubSeq(after, delim, Len(after))
        hash   == Find(rest2, {"#"})
        frag   == IF hash = 0 THEN <<>> ELSE SubSeq(rest2, hash + 1, Len(rest2))
        rest3  == IF hash = 0 THEN rest2 ELSE SubSeq(rest2, 1, hash - 1)
        qm     == Find(rest3, {"?"})
        query  == IF qm = 0 THEN <<>> ELSE SubSeq(rest3, qm + 1, Len(rest3))
        path   == IF qm = 0 THEN rest3 ELSE SubSeq(rest3, 1, qm - 1)
    IN  [scheme |-> scheme, netloc |-> netloc, path |-> path,
         query |-> query, fragment |-> frag]

\* urlunparse(parts)
urlunparse(p) ==
    LET path1 == IF p.netloc # <<>> /\ p.path # <<>> /\ p.path[1] # "/"
                 THEN <<"/">> \o p.path ELSE p.path
        u1 == IF p.netloc # <<>> THEN <<"/", "/">> \o p.netloc \o path1 ELSE p.path
        u2 == IF p.scheme # <<>> THEN p.scheme \o <<":">> \o u1 ELSE u1
        u3 == IF p.query # <<>> THEN u2 \o <<"?">> \o p.query ELSE u2
    IN  IF p.fragment # <<>> THEN u3 \o <<"#">> \o p.fragment ELSE u3

\* unquote of a query component: "+" is a space
unquote_plus(s) == [i \in 1..Len(s) |-> IF s[i] = "+" THEN " " ELSE s[i]]
\* quote_plus of a query component: a space is "+"
quote_plus(s) == [i \in 1..Len(s) |-> IF s[i] = " " THEN "+" ELSE s[i]]

RECURSIVE ParsePairs(_, _)
ParsePairs(fields, keep_blank_values) ==
    IF fields = <<>> THEN <<>>
    ELSE LET nv == Head(fields)
             eq == Find(nv, {"="})
             name  == IF eq = 0 THEN nv ELSE SubSeq(nv, 1, eq - 1)
             value == IF eq = 0 THEN <<>> ELSE SubSeq(nv, eq + 1, Len(nv))
             rest  == ParsePairs(Tail(fields), keep_blank_values)
         IN  IF nv = <<>> THEN rest
             ELSE IF eq = 0 /\ ~keep_blank_values THEN rest
             ELSE IF value # <<>> \/ keep_blank_values
                  THEN <<<<unquote_plus(name), unquote_plus(value)>>>> \o rest
                  ELSE rest

\* parse_qsl(qs, keep_blank_values): the (name, value) pairs in order
parse_qsl(qs, keep_blank_values) ==
    IF qs = <<>> THEN <<>> ELSE ParsePairs(Split(qs, "&"), keep_blank_values)

\* d[key] = value on an insertion-ordered dict kept as a list of pairs
DictSet(d, key, value) ==
    IF \E i \in 1..Len(d) : d[i][1] = key
    THEN [i \in 1..Len(d) |-> IF d[i][1] = key THEN <<key, value>> ELSE d[i]]
    ELSE Append(d, <<key, value>>)

RECURSIVE dict(_)
\* dict(pairs): a later pair overwrites the value of an earlier equal key
dict(pairs) ==
    IF pairs = <<>> THEN <<>>
    ELSE LET last == pairs[Len(pairs)]
         IN  DictSet(dict(SubSeq(pairs, 1, Len(pairs) - 1)), last[1], last[2])

\* urlencode(query)
urlencode(query) ==
    Join([i \in 1..Len(query) |->
            quote_plus(query[i][1]) \o <<"=">> \o quote_plus(query[i][2])], <<"&">>)

\* a faulty build_page_url, testing page < 1: it rewrites the URL of page 1
C10_build_page_url_below_one(url, p) ==
    IF p < 1 THEN url
    ELSE urlunparse([urlparse(url) EXCEPT !.query =
            urlencode(DictSet(dict(parse_qsl(urlparse(url).query, FALSE)),
                              <<"p", "a", "g", "e">>, str_int(p)))])

\* build_page_url(base_url, page)
build_page_url(url, p) ==
    IF p <= 1 THEN url
    ELSE LET parsed_url == urlparse(url)
             query      == DictSet(dict(parse_qsl(parsed_url.query, FALSE)),
                                   <<"p", "a", "g", "e">>, str_int(p))
             new_query  == urlencode(query)
         IN  urlunparse([parsed_url EXCEPT !.query = new_query])

-----------------------------------------------------------------------------
(* Each specification below runs one operation; the variables of the       *)
(* others stay at these values.                                            *)

IdlePrice  == price_text = <<>> /\ price_out = None /\ price_pc = "idle"
IdleClean  == raw_records = <<>> /\ cleaned = <<>> /\ clean_pc = "idle"
IdleDedupe ==
    /\ records = <<>> /\ dd_pass = 0 /\ dd_i = 0 /\ seen = {} /\ unique = <<>>
    /\ first_pass = <<>> /\ dd_pc = "idle"
IdleParse ==
    /\ html = <<>> /\ item_type = <<>> /\ cards = <<>> /\ card_i = 0
    /\ parsed = <<>> /\ parse_pc = "idle"
IdleScrape ==
    /\ site_cards = 0 /\ categories = <<>> /\ pages_arg = 0 /\ cat_i = 0
    /\ pages = 0 /\ cur_page = 0 /\ fetched_html = <<>> /\ results = <<>>
    /\ sm_records = <<>> /\ trace = <<>> /\ exc = "none" /\ raw_df = <<>>
    /\ pc = "idle"

-----------------------------------------------------------------------------
(* The category registry.                                                  *)

CATEGORIES ==
    [vetements_homme |->
        [url  |-> <<"h", "t", "t", "p", "s", ":", "/", "/", "s", "n", ".", "c", "o", "i", "n", "a", "f", "r", "i", "q", "u", "e", ".", "c", "o", "m", "/", "c", "a", "t", "e", "g", "o", "r", "i", "e", "/", "v", "e", "t", "e", "m", "e", "n", "t", "s", "-", "h", "o", "m", "m", "e">>,
         type |-> <<"h", "a", "b", "i", "t", "s">>],
     chaussures_homme |->
        [url  |-> <<"h", "t", "t", "p", "s", ":", "/", "/", "s", "n", ".", "c", "o", "i", "n", "a", "f", "r", "i", "q", "u", "e", ".", "c", "o", "m", "/", "c", "a", "t", "e", "g", "o", "r", "i", "e", "/", "c", "h", "a", "u", "s", "s", "u", "r", "e", "s", "-", "h", "o", "m", "m", "e">>,
         type |-> <<"c", "h", "a", "u", "s", "s", "u", "r", "e", "s">>],
     vetements_enfants |->
        [url  |-> <<"h", "t", "t", "p", "s", ":", "/", "/", "s", "n", ".", "c", "o", "i", "n", "a", "f", "r", "i", "q", "u", "e", ".", "c", "o", "m", "/", "c", "a", "t", "e", "g", "o", "r", "i", "e", "/", "v", "e", "t", "e", "m", "e", "n", "t", "s", "-", "e", "n", "f", "a", "n", "t", "s">>,
         type |-> <<"h", "a", "b", "i", "t", "s">>],
     chaussures_enfants |->
        [url  |-> <<"h", "t", "t", "p", "s", ":", "/", "/", "s", "n", ".", "c", "o", "i", "n", "a", "f", "r", "i", "q", "u", "e", ".", "c", "o", "m", "/", "c", "a", "t", "e", "g", "o", "r", "i", "e", "/", "c", "h", "a", "u", "s", "s", "u", "r", "e", "s", "-", "e", "n", "f", "a", "n", "t", "s">>,
         type |-> <<"c", "h", "a", "u", "s", "s", "u", "r", "e", "s">>]]

CategoryKeys == DOMAIN CATEGORIES

\* the registry's keys as Python strings
KeyText(key) ==
    CASE key = "vetements_homme"    -> <<"v", "e", "t", "e", "m", "e", "n", "t", "s", "-", "h", "o", "m", "m", "e">>
      [] key = "chaussures_homme"   -> <<"c", "h", "a", "u", "s", "s", "u", "r", "e", "s", "-", "h", "o", "m", "m", "e">>
      [] key = "vetements_enfants"  -> <<"v", "e", "t", "e", "m", "e", "n", "t", "s", "-", "e", "n", "f", "a", "n", "t", "s">>
      [] key = "chaussures_enfants" -> <<"c", "h", "a", "u", "s", "s", "u", "r", "e", "s", "-", "e", "n", "f", "a", "n", "t", "s">>

SeqsUpTo(X, n) == UNION {[1..k -> X] : k \in 0..n}

-----------------------------------------------------------------------------
(* build_page_url                                                          *)

\* query parameters a base URL may carry: repeated keys, a blank value, a
\* bare key, an encoded space, an existing page
ParamPool == {<<"a", "=", "1">>, <<"a", "=", "7">>, <<"a", "=">>, <<"b", "=", "1", "+", "2">>, <<"p", "a", "g", "e", "=", "1">>, <<"p", "a", "g", "e", "=", "9">>, <<"c">>}

BaseUrls ==
    LET plain == {CATEGORIES.vetements_homme.url, CATEGORIES.chaussures_enfants.url}
    IN  plain \cup {u \o <<"?">> \o Join(ps, <<"&">>) :
                        u \in plain, ps \in SeqsUpTo(ParamPool, MaxParams)}

Pages == (0 - 1)..MaxPage

IdleUrl == base_url = <<>> /\ page = 0 /\ url_out = <<>> /\ url_pc = "idle"

InitUrlVars ==
    /\ base_url \in BaseUrls
    /\ page \in Pages
    /\ url_out = <<>>
    /\ url_pc = "call"

BuildPageUrl ==
    /\ url_pc = "call"
    /\ url_out' = build_page_url(base_url, page)
    /\ url_pc' = "done"
    /\ UNCHANGED <<base_url, page>>
    /\ UNCHANGED <<priceVars, cleanVars, dedupeVars, parseVars, scrapeVars>>

-----------------------------------------------------------------------------
(* normalize_whitespace and clean_price                                    *)

RECURSIVE LStrip(_)
LStrip(s) == IF s # <<>> /\ IsSpace(Head(s)) THEN LStrip(Tail(s)) ELSE s

RECURSIVE RStrip(_)
RStrip(s) ==
    IF s # <<>> /\ IsSpace(s[Len(s)]) THEN RStrip(SubSeq(s, 1, Len(s) - 1)) ELSE s

\* str.strip()
strip(s) == RStrip(LStrip(s))

RECURSIVE sub_spaces(_)
\* re.sub(r"\s+", " ", s): every maximal run of whitespace becomes one space
sub_spaces(s) ==
    IF s = <<>> THEN <<>>
    ELSE IF IsSpace(Head(s)) THEN <<" ">> \o sub_spaces(LStrip(s))
    ELSE <<Head(s)>> \o sub_spaces(Tail(s))

\* a faulty normalize_whitespace, which only strips the ends
C8_normalize_strip_only(value) == strip(value)

\* normalize_whitespace(value)
normalize_whitespace(value) == strip(sub_spaces(value))

\* re.sub(r"[^\d]", "", s)
sub_non_digits(s) == SelectSeq(s, IsDigit)

\* a faulty clean_price, which looks for "sur demande" in the text as given
C2_clean_price_case_sensitive(text) ==
    IF text = <<>> THEN None
    ELSE IF Contains(text, <<"p", "r", "i", "x", " ", "s", "u", "r", " ", "d", "e", "m", "a", "n", "d", "e">>) \/ Contains(text, <<"s", "u", "r", " ", "d", "e", "m", "a", "n", "d", "e">>)
         THEN None
    ELSE IF sub_non_digits(text) # <<>> THEN PyInt(ParseInt(sub_non_digits(text)))
         ELSE None

\* clean_price(price_text)
clean_price(text) ==
    IF text = <<>> THEN None
    ELSE LET lowered == lower(text)
         IN  IF Contains(lowered, <<"p", "r", "i", "x", " ", "s", "u", "r", " ", "d", "e", "m", "a", "n", "d", "e">>) \/ Contains(lowered, <<"s", "u", "r", " ", "d", "e", "m", "a", "n", "d", "e">>)
             THEN None
             ELSE LET digits == sub_non_digits(text)
                  IN  IF digits # <<>> THEN PyInt(ParseInt(digits)) ELSE None

\* the pieces price texts are put together from
PriceFragments ==
    {<<"2", "5">>, <<" ", "0", "0", "0">>, <<" ", "F", "C", "F", "A">>, <<"1", ".", "5">>, <<"g", "r", "a", "t", "u", "i", "t">>, <<"s", "u", "r", " ", "d", "e", "m", "a", "n", "d", "e">>, <<"S", "U", "R", " ", "D", "E", "M", "A", "N", "D", "E">>,
     <<"P", "r", "i", "x", " ", "s", "u", "r", " ", "d", "e", "m", "a", "n", "d", "e">>, <<"S", "u", "r", " ", "D", "e", "m", "a", "n", "d", "e", " ">>, <<"s", "u", "r">>, <<" ", "d", "e", "m", "a", "n", "d", "e">>, <<" ">>}

RECURSIVE Concat(_)
Concat(parts) == IF parts = <<>> THEN <<>> ELSE Head(parts) \o Concat(Tail(parts))

PriceTexts ==
    {t \in {Concat(fs) : fs \in SeqsUpTo(PriceFragments, MaxFrags)} :
        Len(SelectSeq(t, IsDigit)) <= MaxDigits}

InitPriceVars ==
    /\ price_text \in PriceTexts
    /\ price_out = None
    /\ price_pc = "call"

CleanPrice ==
    /\ price_pc = "call"
    /\ price_out' = clean_price(price_text)
    /\ price_pc' = "done"
    /\ UNCHANGED price_text
    /\ UNCHANGED <<urlVars, cleanVars, dedupeVars, parseVars, scrapeVars>>

-----------------------------------------------------------------------------
(* clean_records                                                           *)

Fields == {"type", "prix", "adresse", "image_lien", "categorie"}

\* row.get(key, default)
get(row, key, default) == IF key \in DOMAIN row THEN row[key] ELSE default

\* str(value)
str(v) ==
    CASE v.kind = "none" -> <<"N", "o", "n", "e">>
      [] v.kind = "str"  -> v.s
      [] v.kind = "int"  -> str_int(v.n)

\* value or None, for a string
or_none(s) == IF s = <<>> THEN None ELSE PyStr(s)

\* the dict clean_records appends for one row
clean_row(row) ==
    LET raw_price == normalize_whitespace(str(get(row, "prix", PyStr(<<>>))))
        categorie == or_none(normalize_whitespace(str(get(row, "categorie", PyStr(<<>>)))))
    IN  [type       |-> or_none(lower(normalize_whitespace(
                                    str(get(row, "type", PyStr(<<>>)))))),
         prix_brut  |-> or_none(raw_price),
         prix       |-> clean_price(raw_price),
         adresse    |-> or_none(normalize_whitespace(
                                    str(get(row, "adresse", PyStr(<<>>))))),
         image_lien |-> or_none(normalize_whitespace(
                                    str(get(row, "image_lien", PyStr(<<>>))))),
         categorie  |-> categorie]

\* clean_records(records)
clean_records(rows) == [i \in 1..Len(rows) |-> clean_row(rows[i])]

\* a key the row does not have
Missing == [kind |-> "missing", s |-> <<>>, n |-> 0]

\* the dict with the given values, without the keys whose value is Missing
Row(t, p, a, i, c) ==
    LET all == [type |-> t, prix |-> p, adresse |-> a, image_lien |-> i, categorie |-> c]
    IN  [f \in {g \in Fields : all[g] # Missing} |-> all[f]]

TypeValues == {Missing, None, PyStr(<<>>), PyStr(<<" ", " ", "H", "A", "B", "I", "T", "S", " ", "\t", " ", "H", "o", "m", "m", "e", " ">>)}
PrixValues ==
    {Missing, None, PyStr(<<>>), PyStr(<<" ", "2", "5", " ", "0", "0", "0", " ", " ", "F", "C", "F", "A">>), PyStr(<<"P", "r", "i", "x", " ", " ", "s", "u", "r", " ", "d", "e", "m", "a", "n", "d", "e">>),
     PyStr(<<"g", "r", "a", "t", "u", "i", "t">>), PyInt(1500)}
AdresseValues ==
    {Missing, None} \cup {PyStr(s) : s \in SeqsUpTo({" ", "\t", "A"}, MaxLen)}
ImageValues == {Missing, PyStr(<<" ", "h", "t", "t", "p", "s", ":", "/", "/", "i", "m", "g", "/", "a", ".", "j", "p", "g", "\n">>), PyStr(<<"\n">>)}
CategorieValues == {Missing, None, PyStr(<<"v", "e", "t", "e", "m", "e", "n", "t", "s", "-", "h", "o", "m", "m", "e">>)}

RawRows ==
    {Row(t, p, a, i, c) : t \in TypeValues, p \in PrixValues, a \in AdresseValues,
                          i \in ImageValues, c \in CategorieValues}

InitCleanVars ==
    /\ raw_records \in {<<>>} \cup {<<r>> : r \in RawRows}
    /\ cleaned = <<>>
    /\ clean_pc = "call"

CleanRecords ==
    /\ clean_pc = "call"
    /\ cleaned' = clean_records(raw_records)
    /\ clean_pc' = "done"
    /\ UNCHANGED raw_records
    /\ UNCHANGED <<urlVars, priceVars, dedupeVars, parseVars, scrapeVars>>

-----------------------------------------------------------------------------
(* dedupe_records                                                          *)

\* bool(value)
truthy(v) ==
    CASE v.kind = "none" -> FALSE
      [] v.kind = "str"  -> v.s # <<>>
      [] v.kind = "int"  -> v.n # 0

\* a or b
py_or(a, b) == IF truthy(a) THEN a ELSE b

\* a faulty key, which leaves image_lien out
C3_key_without_image(row) ==
    <<get(row, "type", None),
      py_or(get(row, "prix_brut", None), get(row, "prix", None)),
      get(row, "adresse", None),
      get(row, "categorie", None)>>

\* the key dedupe_records builds for a row
key(row) ==
    <<get(row, "type", None),
      py_or(get(row, "prix_brut", None), get(row, "prix", None)),
      get(row, "adresse", None),
      get(row, "image_lien", None),
      get(row, "categorie", None)>>

\* raw rows whose cleaned records differ from the first in one key field
\* each, or in none (the second), or have no price
DedupeRawRows ==
    LET t == PyStr(<<"h", "a", "b", "i", "t", "s">>)
        p == PyStr(<<"2", "5", " ", "0", "0", "0", " ", "F", "C", "F", "A">>)
        a == PyStr(<<"D", "a", "k", "a", "r">>)
        i == PyStr(<<"a", ".", "j", "p", "g">>)
        c == PyStr(<<"v", "e", "t", "e", "m", "e", "n", "t", "s", "-", "h", "o", "m", "m", "e">>)
    IN  {Row(t, p, a, i, c),
         Row(PyStr(<<" ", "H", "a", "b", "i", "t", "s">>), PyStr(<<"2", "5", " ", " ", "0", "0", "0", " ", "F", "C", "F", "A", " ">>), a, i, c),
         Row(PyStr(<<"c", "h", "a", "u", "s", "s", "u", "r", "e", "s">>), p, a, i, c),
         Row(t, PyStr(<<"2", "5", "0", "0", "0">>), a, i, c),
         Row(t, Missing, a, i, c),
         Row(t, p, PyStr(<<"P", "i", "k", "i", "n", "e">>), i, c),
         Row(t, p, a, PyStr(<<"a", "_", "2", ".", "j", "p", "g">>), c),
         Row(t, p, a, i, PyStr(<<"v", "e", "t", "e", "m", "e", "n", "t", "s", "-", "e", "n", "f", "a", "n", "t", "s">>)),
         Row(t, p, a, i, Missing)}

\* the cleaned records dedupe_records is handed
CleanedPool == {clean_row(r) : r \in DedupeRawRows}

\* the argument of the running call: X, then dedupe_records(X)
dd_arg == IF dd_pass = 1 THEN records ELSE first_pass

InitDedupeVars ==
    /\ records \in SeqsUpTo(CleanedPool, MaxRecords)
    /\ dd_pass = 1
    /\ dd_i = 0
    /\ seen = {}
    /\ unique = <<>>
    /\ first_pass = <<>>
    /\ dd_pc = "loop"

\* a faulty loop body, which forgets the key of the row it drops
C7_DedupeSkip_forgets ==
    /\ dd_pc = "loop"
    /\ dd_i < Len(dd_arg)
    /\ key(dd_arg[dd_i + 1]) \in seen
    /\ seen' = seen \ {key(dd_arg[dd_i + 1])}
    /\ dd_i' = dd_i + 1
    /\ UNCHANGED <<records, dd_pass, unique, first_pass, dd_pc>>
    /\ UNCHANGED <<urlVars, priceVars, cleanVars, parseVars, scrapeVars>>

\* the loop body for a row whose key is in seen: continue
DedupeSkip ==
    /\ dd_pc = "loop"
    /\ dd_i < Len(dd_arg)
    /\ key(dd_arg[dd_i + 1]) \in seen
    /\ dd_i' = dd_i + 1
    /\ UNCHANGED <<records, dd_pass, seen, unique, first_pass, dd_pc>>
    /\ UNCHANGED <<urlVars, priceVars, cleanVars, parseVars, scrapeVars>>

\* the loop body for a row whose key is new
DedupeKeep ==
    /\ dd_pc = "loop"
    /\ dd_i < Len(dd_arg)
    /\ key(dd_arg[dd_i + 1]) \notin seen
    /\ seen' = seen \cup {key(dd_arg[dd_i + 1])}
    /\ unique' = Append(unique, dd_arg[dd_i + 1])
    /\ dd_i' = dd_i + 1
    /\ UNCHANGED <<records, dd_pass, first_pass, dd_pc>>
    /\ UNCHANGED <<urlVars, priceVars, cleanVars, parseVars, scrapeVars>>

\* return unique
DedupeReturn ==
    /\ dd_pc = "loop"
    /\ dd_i = Len(dd_arg)
    /\ dd_pc' = "returned"
    /\ UNCHANGED <<records, dd_pass, dd_i, seen, unique, first_pass>>
    /\ UNCHANGED <<urlVars, priceVars, cleanVars, parseVars, scrapeVars>>

\* dedupe_records called on its own result
DedupeAgain ==
    /\ dd_pc = "returned"
    /\ dd_pass = 1
    /\ first_pass' = unique
    /\ dd_pass' = 2
    /\ dd_i' = 0
    /\ seen' = {}
    /\ unique' = <<>>
    /\ dd_pc' = "loop"
    /\ UNCHANGED records
    /\ UNCHANGED <<urlVars, priceVars, cleanVars, parseVars, scrapeVars>>

-----------------------------------------------------------------------------
(* parse_listings.  A document is the sequence of its elements; an element *)
(* has a tag, classes, and the sub-elements the selectors look for: the    *)
(* text of "p.ad__card-price a", the text of "p.ad__card-location span",   *)
(* and "img.ad__card-img" with or without a src attribute (None: the       *)
(* sub-element is not there).                                              *)

Img(src)  == [kind |-> "img", s |-> src, n |-> 1]
ImgNoSrc  == [kind |-> "img", s |-> <<>>, n |-> 0]

Element(tag, classes, price, location, img) ==
    [tag |-> tag, classes |-> classes, price |-> price, location |-> location,
     img |-> img]

\* a faulty selector, which matches any element of class "card"
C9_select_any_card(doc) == SelectSeq(doc, LAMBDA e : "card" \in e.classes)

\* soup.select("div.card.ad__card"), in document order
select_cards(doc) ==
    SelectSeq(doc, LAMBDA e : e.tag = "div" /\ {"card", "ad__card"} \subseteq e.classes)

\* el.get_text(strip=True) if el else ""
text_or_empty(el) == IF el = None THEN <<>> ELSE strip(el.s)

\* image_el.get("src", "") if image_el else ""
src_or_empty(el) == IF el = None \/ el.n = 0 THEN <<>> ELSE el.s

\* the dict parse_listings appends for one card
card_record(card, type) ==
    [type       |-> PyStr(type),
     prix       |-> PyStr(text_or_empty(card.price)),
     adresse    |-> PyStr(text_or_empty(card.location)),
     image_lien |-> PyStr(src_or_empty(card.img))]

\* parse_listings(html, item_type)
parse_listings(doc, type) ==
    LET cs == select_cards(doc)
    IN  [k \in 1..Len(cs) |-> card_record(cs[k], type)]

ElementPool ==
    LET both  == {"card", "ad__card"}
        price == PyStr(<<"\n", " ", "2", "5", " ", "0", "0", "0", " ", "F", "C", "F", "A", " ">>)
        loc   == PyStr(<<" ", "D", "a", "k", "a", "r">>)
        img   == Img(<<"a", ".", "j", "p", "g">>)
    IN  {Element("div", both, price, loc, img),
         Element("div", both \cup {"featured"}, PyStr(<<"P", "r", "i", "x", " ", "s", "u", "r", " ", "d", "e", "m", "a", "n", "d", "e">>), loc, img),
         Element("div", both, None, loc, img),
         Element("div", both, price, None, img),
         Element("div", both, price, loc, None),
         Element("div", both, price, loc, ImgNoSrc),
         Element("div", {"card"}, price, loc, img),
         Element("p", both, price, loc, img)}

InitParseVars ==
    /\ html \in SeqsUpTo(ElementPool, MaxElems)
    /\ item_type \in {CATEGORIES.vetements_homme.type, CATEGORIES.chaussures_homme.type}
    /\ cards = <<>>
    /\ card_i = 0
    /\ parsed = <<>>
    /\ parse_pc = "select"

\* soup = BeautifulSoup(html); cards = soup.select(...); records = []
ParseSelect ==
    /\ parse_pc = "select"
    /\ cards' = select_cards(html)
    /\ parsed' = <<>>
    /\ card_i' = 0
    /\ parse_pc' = "loop"
    /\ UNCHANGED <<html, item_type>>
    /\ UNCHANGED <<urlVars, priceVars, cleanVars, dedupeVars, scrapeVars>>

\* the loop body for one card
ParseCard ==
    /\ parse_pc = "loop"
    /\ card_i < Len(cards)
    /\ parsed' = Append(parsed, card_record(cards[card_i + 1], item_type))
    /\ card_i' = card_i + 1
    /\ UNCHANGED <<html, item_type, cards, parse_pc>>
    /\ UNCHANGED <<urlVars, priceVars, cleanVars, dedupeVars, scrapeVars>>

\* return records
ParseReturn ==
    /\ parse_pc = "loop"
    /\ card_i = Len(cards)
    /\ parse_pc' = "returned"
    /\ UNCHANGED <<html, item_type, cards, card_i, parsed>>
    /\ UNCHANGED <<urlVars, priceVars, cleanVars, dedupeVars, scrapeVars>>

-----------------------------------------------------------------------------
(* main -> scrape_multiple -> scrape_category -> fetch_html.  The site     *)
(* serves, for every page of every category, site_cards cards whose        *)
(* location text names the path, the page and the card.  trace is what the *)
(* outside sees: the requests with their outcome, and the sleeps.          *)

\* the page a URL asks for
PageOf(url) ==
    LET q == dict(parse_qsl(urlparse(url).query, FALSE))
    IN  IF \E i \in 1..Len(q) : q[i][1] = <<"p", "a", "g", "e">>
        THEN ParseInt((CHOOSE pr \in {q[i] : i \in 1..Len(q)} : pr[1] = <<"p", "a", "g", "e">>)[2])
        ELSE 1

\* the document the site serves at a URL
SiteHtml(url, n) ==
    [k \in 1..n |->
        Element("div", {"card", "ad__card"},
                PyStr(str_int(k) \o <<" ", "0", "0", "0", " ", "F", "C", "F", "A">>),
                PyStr(urlparse(url).path \o <<" ", "p">> \o str_int(PageOf(url))
                        \o <<" ", "c">> \o str_int(k)),
                Img(<<"i", "m", "g">> \o str_int(k) \o <<".", "j", "p", "g">>))]

\* the category scrape_multiple is at
cur_key == categories[cat_i]

\* the URL scrape_category fetches for the page it is at
cur_url == build_page_url(CATEGORIES[cur_key].url, cur_page)

\* the selections of the multiselect: distinct keys, in any order
Selections ==
    {sel \in SeqsUpTo(CategoryKeys, MaxCats) :
        \A i, j \in 1..Len(sel) : i # j => sel[i] # sel[j]}

InitScrapeVars ==
    /\ site_cards \in 0..MaxCards
    /\ categories \in Selections
    /\ pages_arg \in Pages
    /\ cat_i = 0
    /\ pages = 0
    /\ cur_page = 0
    /\ fetched_html = <<>>
    /\ results = <<>>
    /\ sm_records = <<>>
    /\ trace = <<>>
    /\ exc = "none"
    /\ raw_df = <<>>
    /\ pc = "main"

\* main: "if not selected": a warning, no scrape
MainNoSelection ==
    /\ pc = "main"
    /\ categories = <<>>
    /\ pc' = "done"
    /\ UNCHANGED <<site_cards, categories, pages_arg, cat_i, pages, cur_page,
                   fetched_html, results, sm_records, trace, exc, raw_df>>
    /\ UNCHANGED <<urlVars, priceVars, cleanVars, dedupeVars, parseVars>>

\* main: scrape_multiple(selected, int(pages)); records = []
CallScrapeMultiple ==
    /\ pc = "main"
    /\ categories # <<>>
    /\ sm_records' = <<>>
    /\ cat_i' = 0
    /\ pc' = "sm_loop"
    /\ UNCHANGED <<site_cards, categories, pages_arg, pages, cur_page,
                   fetched_html, results, trace, exc, raw_df>>
    /\ UNCHANGED <<urlVars, priceVars, cleanVars, dedupeVars, parseVars>>

\* scrape_multiple: the next key; scrape_category is entered:
\* pages = max(1, pages); results = []; the first page
CallScrapeCategory ==
    /\ pc = "sm_loop"
    /\ cat_i < Len(categories)
    /\ cat_i' = cat_i + 1
    /\ pages' = Max(1, pages_arg)
    /\ results' = <<>>
    /\ cur_page' = 1
    /\ pc' = "fetch"
    /\ UNCHANGED <<site_cards, categories, pages_arg, fetched_html, sm_records,
                   trace, exc, raw_df>>
    /\ UNCHANGED <<urlVars, priceVars, cleanVars, dedupeVars, parseVars>>

\* url = build_page_url(base_url, page); html = fetch_html(url): the response
FetchOk ==
    /\ pc = "fetch"
    /\ fetched_html' = SiteHtml(cur_url, site_cards)
    /\ trace' = Append(trace, <<"fetch", cur_key, cur_url, TRUE>>)
    /\ pc' = "parse"
    /\ UNCHANGED <<site_cards, categories, pages_arg, cat_i, pages, cur_page,
                   results, sm_records, exc, raw_df>>
    /\ UNCHANGED <<urlVars, priceVars, cleanVars, dedupeVars, parseVars>>

\* a faulty scrape_category, which swallows the failure and goes on
C6_FetchFail_skips_page ==
    /\ pc = "fetch"
    /\ trace' = Append(trace, <<"fetch", cur_key, cur_url, FALSE>>)
    /\ pc' = IF cur_page < pages THEN "sleep" ELSE "category_return"
    /\ UNCHANGED <<site_cards, categories, pages_arg, cat_i, pages, cur_page,
                   fetched_html, results, sm_records, exc, raw_df>>
    /\ UNCHANGED <<urlVars, priceVars, cleanVars, dedupeVars, parseVars>>

\* fetch_html raises (no connection, a timeout, raise_for_status); neither
\* scrape_category nor scrape_multiple has a handler, their frames are left
FetchFail ==
    /\ pc = "fetch"
    /\ trace' = Append(trace, <<"fetch", cur_key, cur_url, FALSE>>)
    /\ exc' = "RequestException"
    /\ pc' = "raised"
    /\ UNCHANGED <<site_cards, categories, pages_arg, cat_i, pages, cur_page,
                   fetched_html, results, sm_records, raw_df>>
    /\ UNCHANGED <<urlVars, priceVars, cleanVars, dedupeVars, parseVars>>

\* a faulty scrape_category, which sleeps after the last page too
C5_ParsePage_always_sleeps ==
    /\ pc = "parse"
    /\ results' = results \o parse_listings(fetched_html, CATEGORIES[cur_key].type)
    /\ pc' = "sleep"
    /\ UNCHANGED <<site_cards, categories, pages_arg, cat_i, pages, cur_page,
                   fetched_html, sm_records, trace, exc, raw_df>>
    /\ UNCHANGED <<urlVars, priceVars, cleanVars, dedupeVars, parseVars>>

\* results.extend(parse_listings(html, item_type)); if page < pages: the
\* sleep; else the for statement: the range is exhausted after the last page
ParsePage ==
    /\ pc = "parse"
    /\ results' = results \o parse_listings(fetched_html, CATEGORIES[cur_key].type)
    /\ pc' = IF cur_page < pages THEN "sleep" ELSE "category_return"
    /\ UNCHANGED <<site_cards, categories, pages_arg, cat_i, pages, cur_page,
                   fetched_html, sm_records, trace, exc, raw_df>>
    /\ UNCHANGED <<urlVars, priceVars, cleanVars, dedupeVars, parseVars>>

\* time.sleep(delay_seconds), then the for statement: the next page of
\* range(1, pages + 1), or the end of the loop
Sleep ==
    /\ pc = "sleep"
    /\ trace' = Append(trace, <<"sleep", cur_key>>)
    /\ pc' = IF cur_page < pages THEN "fetch" ELSE "category_return"
    /\ cur_page' = IF cur_page < pages THEN cur_page + 1 ELSE cur_page
    /\ UNCHANGED <<site_cards, categories, pages_arg, cat_i, pages,
                   fetched_html, results, sm_records, exc, raw_df>>
    /\ UNCHANGED <<urlVars, priceVars, cleanVars, dedupeVars, parseVars>>

\* scrape_category returns results; scrape_multiple sets item["categorie"]
\* on each and extends records
CategoryReturn ==
    /\ pc = "category_return"
    /\ sm_records' = sm_records \o
            [k \in 1..Len(results) |->
                [type       |-> results[k].type,
                 prix       |-> results[k].prix,
                 adresse    |-> results[k].adresse,
                 image_lien |-> results[k].image_lien,
                 categorie  |-> PyStr(KeyText(cur_key))]]
    /\ pc' = "sm_loop"
    /\ UNCHANGED <<site_cards, categories, pages_arg, cat_i, pages, cur_page,
                   fetched_html, results, trace, exc, raw_df>>
    /\ UNCHANGED <<urlVars, priceVars, cleanVars, dedupeVars, parseVars>>

\* scrape_multiple returns pd.DataFrame(records) to main
ScrapeMultipleReturn ==
    /\ pc = "sm_loop"
    /\ cat_i = Len(categories)
    /\ raw_df' = sm_records
    /\ pc' = "done"
    /\ UNCHANGED <<site_cards, categories, pages_arg, cat_i, pages, cur_page,
                   fetched_html, results, sm_records, trace, exc>>
    /\ UNCHANGED <<urlVars, priceVars, cleanVars, dedupeVars, parseVars>>

\* main: except Exception: st.error(...); raw_df = pd.DataFrame()
MainExcept ==
    /\ pc = "raised"
    /\ raw_df' = <<>>
    /\ pc' = "done"
    /\ UNCHANGED <<site_cards, categories, pages_arg, cat_i, pages, cur_page,
                   fetched_html, results, sm_records, trace, exc>>
    /\ UNCHANGED <<urlVars, priceVars, cleanVars, dedupeVars, parseVars>>

-----------------------------------------------------------------------------
(* Properties of build_page_url (SpecUrl).                                 *)

\* every (name, value) pair a query string holds, blank values included
AllParams(url) == parse_qsl(urlparse(url).query, TRUE)

\* C1: for page > 1 the result's page parameter is str(page), every other
\* query parameter of the base URL is in the result with its value, and
\* scheme, host and path are those of the base URL
C1_AllParamsPreserved ==
    (url_pc = "done" /\ page > 1) =>
        LET b  == urlparse(base_url)
            o  == urlparse(url_out)
            bp == AllParams(base_url)
            op == AllParams(url_out)
        IN  /\ o.scheme = b.scheme /\ o.netloc = b.netloc /\ o.path = b.path
            /\ \E j \in 1..Len(op) : op[j] = <<<<"p", "a", "g", "e">>, str_int(page)>>
            /\ \A j \in 1..Len(op) : op[j][1] = <<"p", "a", "g", "e">> => op[j][2] = str_int(page)
            /\ \A i \in 1..Len(bp) :
                    bp[i][1] # <<"p", "a", "g", "e">> => \E j \in 1..Len(op) : op[j] = bp[i]

\* C10: for page <= 1 the result is the base URL as given, an existing page
\* parameter included
C10_PageOneUnchanged ==
    (url_pc = "done" /\ page <= 1) => url_out = base_url

C10_Witness ==
    /\ url_pc = "done"
    /\ page <= 0
    /\ Contains(base_url, <<"p", "a", "g", "e", "=", "9", "&", "a", "=">>)
    /\ url_out = base_url

-----------------------------------------------------------------------------
(* Properties of clean_price (SpecPrice).                                  *)

ContainsIgnoringCase(s, needle) ==
    \E i \in 0..(Len(s) - Len(needle)) :
        \A j \in 1..Len(needle) : lower(<<s[i + j]>>) = <<needle[j]>>

DigitsOf(s) == SelectSeq(s, IsDigit)

RECURSIVE Pow10(_)
Pow10(k) == IF k = 0 THEN 1 ELSE 10 * Pow10(k - 1)

RECURSIVE DecimalValue(_, _)
\* the number the digits ds[k..] stand for
DecimalValue(ds, k) ==
    IF k > Len(ds) THEN 0
    ELSE DigitVal(ds[k]) * Pow10(Len(ds) - k) + DecimalValue(ds, k + 1)

\* C2: clean_price is absent when the text holds "sur demande" in any case,
\* digits or not; otherwise it is the number its digits spell in order, and
\* absent when it has no digit
C2_CleanPrice ==
    price_pc = "done" =>
        price_out =
            IF ContainsIgnoringCase(price_text, <<"s", "u", "r", " ", "d", "e", "m", "a", "n", "d", "e">>) THEN None
            ELSE IF DigitsOf(price_text) = <<>> THEN None
            ELSE PyInt(DecimalValue(DigitsOf(price_text), 1))

C2_Witness ==
    /\ price_pc = "done"
    /\ ContainsIgnoringCase(price_text, <<"s", "u", "r", " ", "d", "e", "m", "a", "n", "d", "e">>)
    /\ ~Contains(price_text, <<"s", "u", "r", " ", "d", "e", "m", "a", "n", "d", "e">>)
    /\ DigitsOf(price_text) # <<>>
    /\ price_out = None

-----------------------------------------------------------------------------
(* Properties of clean_records (SpecClean).                                *)

\* the row without the keys whose value is None
WithoutNone(row) == [f \in {g \in DOMAIN row : row[g] # None} |-> row[f]]

\* C4: a field that is missing or None is cleaned as the empty string: the
\* cleaned field (prix_brut and prix for the price) is absent, and the
\* cleaned record is that of the row without the field
C4_MissingOrNoneIsEmpty ==
    clean_pc = "done" =>
        \A i \in 1..Len(raw_records) :
            /\ \A f \in Fields :
                    (f \notin DOMAIN raw_records[i] \/ raw_records[i][f] = None) =>
                        /\ cleaned[i][f] = None
                        /\ f = "prix" => cleaned[i].prix_brut = None
            /\ cleaned[i] = clean_row(WithoutNone(raw_records[i]))

NormalizedText(s) ==
    /\ s # <<>>
    /\ ~IsSpace(s[1])
    /\ ~IsSpace(s[Len(s)])
    /\ \A i \in 1..(Len(s) - 1) : ~(IsSpace(s[i]) /\ IsSpace(s[i + 1]))

NoUpperCase(s) == \A i \in 1..Len(s) : \A k \in 1..26 : s[i] # UpperLetters[k]

\* C8: no cleaned field is the empty string: the text fields are absent or
\* non-empty without leading, trailing or repeated whitespace (type also in
\* lower case), and prix is absent or a non-negative integer
C8_CleanedFields ==
    clean_pc = "done" =>
        \A i \in 1..Len(cleaned) :
            /\ \A f \in {"type", "prix_brut", "adresse", "image_lien", "categorie"} :
                    \/ cleaned[i][f] = None
                    \/ /\ cleaned[i][f].kind = "str"
                       /\ NormalizedText(cleaned[i][f].s)
                       /\ f = "type" => NoUpperCase(cleaned[i][f].s)
            /\ \/ cleaned[i].prix = None
               \/ cleaned[i].prix.kind = "int" /\ cleaned[i].prix.n >= 0

C8_Witness ==
    /\ clean_pc = "done"
    /\ Len(raw_records) = 1
    /\ "adresse" \in DOMAIN raw_records[1]
    /\ raw_records[1].adresse = PyStr(<<"A", " ", "\t", "A">>)
    /\ cleaned[1].adresse = PyStr(<<"A", " ", "A">>)
    /\ cleaned[1].type = PyStr(<<"h", "a", "b", "i", "t", "s", " ", "h", "o", "m", "m", "e">>)
    /\ cleaned[1].prix = PyInt(25000)
    /\ cleaned[1].image_lien = None

-----------------------------------------------------------------------------
(* Properties of dedupe_records (SpecDedupe).                              *)

FiveFieldKey(r) ==
    <<r.type, IF r.prix_brut # None THEN r.prix_brut ELSE r.prix,
      r.adresse, r.image_lien, r.categorie>>

\* the positions whose key does not occur at an earlier position
FirstOccurrences(rs) ==
    {i \in 1..Len(rs) : \A j \in 1..(i - 1) : FiveFieldKey(rs[j]) # FiveFieldKey(rs[i])}

\* C3: dedupe_records returns, in input order, exactly the records whose
\* five-field key does not occur at an earlier position of the input
C3_FirstOccurrenceKept ==
    (dd_pc = "returned" /\ dd_pass = 1) =>
        LET first == FirstOccurrences(records)
        IN  /\ Len(unique) = Cardinality(first)
            /\ \A i \in first :
                    unique[Cardinality({j \in first : j <= i})] = records[i]

C3_Witness ==
    /\ dd_pc = "returned"
    /\ dd_pass = 1
    /\ Len(records) = 3
    /\ Len(unique) = 2
    /\ unique[1].image_lien # unique[2].image_lien
    /\ [unique[1] EXCEPT !.image_lien = None] = [unique[2] EXCEPT !.image_lien = None]

\* C7: dedupe_records(dedupe_records(X)) = dedupe_records(X)
C7_DedupeIdempotent ==
    (dd_pc = "returned" /\ dd_pass = 2) => unique = first_pass

C7_Witness ==
    /\ dd_pc = "returned"
    /\ dd_pass = 2
    /\ Len(records) = 3
    /\ Len(first_pass) = 2
    /\ unique = first_pass

-----------------------------------------------------------------------------
(* Properties of parse_listings (SpecParse).                               *)

IsListingCard(e) == e.tag = "div" /\ "card" \in e.classes /\ "ad__card" \in e.classes

CardPositions(doc) == {i \in 1..Len(doc) : IsListingCard(doc[i])}

\* C9: one record per matched card, in document order, stamped with the
\* item type; a missing price, location or image element, or a missing src,
\* gives the empty string in that field; no card gives no record
C9_OneRecordPerCard ==
    parse_pc = "returned" =>
        LET at == CardPositions(html)
        IN  /\ Len(parsed) = Cardinality(at)
            /\ \A i \in at :
                LET r == parsed[Cardinality({j \in at : j <= i})]
                    e == html[i]
                IN  /\ r.type = PyStr(item_type)
                    /\ r.prix = IF e.price = None THEN PyStr(<<>>)
                                ELSE PyStr(strip(e.price.s))
                    /\ r.adresse = IF e.location = None THEN PyStr(<<>>)
                                   ELSE PyStr(strip(e.location.s))
                    /\ r.image_lien = IF e.img = None \/ e.img = ImgNoSrc THEN PyStr(<<>>)
                                      ELSE PyStr(e.img.s)

C9_Witness ==
    /\ parse_pc = "returned"
    /\ Len(html) = 3
    /\ Len(parsed) = 2
    /\ ~IsListingCard(html[2])
    /\ html[1].price = None
    /\ parsed[1].prix = PyStr(<<>>)
    /\ html[3].img = ImgNoSrc
    /\ parsed[2].image_lien = PyStr(<<>>)

-----------------------------------------------------------------------------
(* Properties of scrape_category and scrape_multiple (SpecScrape).         *)

\* the URL of page p of a category of the registry
PageUrl(k, p) ==
    IF p = 1 THEN CATEGORIES[k].url
    ELSE CATEGORIES[k].url \o <<"?", "p", "a", "g", "e", "=">> \o str_int(p)

\* what the site serves on pages 1..n of a category, as records
RECURSIVE PagesRecords(_, _)
PagesRecords(k, n) ==
    IF n = 0 THEN <<>>
    ELSE PagesRecords(k, n - 1)
            \o parse_listings(SiteHtml(PageUrl(k, n), site_cards), CATEGORIES[k].type)

\* what the outside sees of the running scrape_category call
CallTrace == SelectSeq(trace, LAMBDA e : e[2] = cur_key)

\* n fetches, of pages 1..n in order, with one sleep between two of them
PacedFetches(k, n) ==
    [i \in 1..(2 * n - 1) |->
        IF i % 2 = 1 THEN <<"fetch", k, PageUrl(k, (i + 1) \div 2), TRUE>>
        ELSE <<"sleep", k>>]

\* C5: without a fetch failure a scrape_category call issues max(1, n)
\* fetches, of pages 1..max(1, n) in order, with one sleep between two
\* consecutive fetches and none after the last, and the records of the
\* pages before are in results when a page is fetched
C5_PagedScrape ==
    /\ pc = "category_return" =>
            /\ CallTrace = PacedFetches(cur_key, Max(1, pages_arg))
            /\ results = PagesRecords(cur_key, Max(1, pages_arg))
    /\ pc = "fetch" => results = PagesRecords(cur_key, cur_page - 1)

C5_Witness ==
    /\ pc = "category_return"
    /\ cat_i = 2
    /\ pages_arg = 3
    /\ site_cards = 2
    /\ Len(results) = 6
    /\ Len(CallTrace) = 5

\* a fetch of the batch has failed
Failed == \E i \in 1..Len(trace) : trace[i][1] = "fetch" /\ ~trace[i][4]

\* C6: once a fetch has failed no further fetch (or sleep) happens, the
\* failure is on its way to main or handled there, and main holds no record
C6_FailFast ==
    [][Failed' =>
        /\ Failed => trace' = trace
        /\ exc' # "none"
        /\ pc' \in {"raised", "done"}
        /\ raw_df' = <<>>]_vars

C6_Witness ==
    /\ Failed
    /\ pc = "done"
    /\ Len(categories) = 2
    /\ cat_i = 2
    /\ cur_page = 2
    /\ sm_records # <<>>
    /\ raw_df = <<>>

-----------------------------------------------------------------------------
(* Specifications.                                                         *)

InitUrl == InitUrlVars /\ IdlePrice /\ IdleClean /\ IdleDedupe /\ IdleParse /\ IdleScrape
NextUrl == BuildPageUrl
SpecUrl == InitUrl /\ [][NextUrl]_vars

InitPrice == IdleUrl /\ InitPriceVars /\ IdleClean /\ IdleDedupe /\ IdleParse /\ IdleScrape
NextPrice == CleanPrice
SpecPrice == InitPrice /\ [][NextPrice]_vars

InitClean == IdleUrl /\ IdlePrice /\ InitCleanVars /\ IdleDedupe /\ IdleParse /\ IdleScrape
NextClean == CleanRecords
SpecClean == InitClean /\ [][NextClean]_vars

InitDedupe == IdleUrl /\ IdlePrice /\ IdleClean /\ InitDedupeVars /\ IdleParse /\ IdleScrape
NextDedupe == DedupeSkip \/ DedupeKeep \/ DedupeReturn \/ DedupeAgain
SpecDedupe == InitDedupe /\ [][NextDedupe]_vars

InitParse == IdleUrl /\ IdlePrice /\ IdleClean /\ IdleDedupe /\ InitParseVars /\ IdleScrape
NextParse == ParseSelect \/ ParseCard \/ ParseReturn
SpecParse == InitParse /\ [][NextParse]_vars

InitScrape == IdleUrl /\ IdlePrice /\ IdleClean /\ IdleDedupe /\ IdleParse /\ InitScrapeVars
NextScrape ==
    \/ MainNoSelection \/ CallScrapeMultiple \/ CallScrapeCategory
    \/ FetchOk \/ FetchFail \/ ParsePage \/ Sleep
    \/ CategoryReturn \/ ScrapeMultipleReturn \/ MainExcept
SpecScrape == InitScrape /\ [][NextScrape]_vars

====
